---- MODULE Spec2Model ----
(***************************************************************************)
(* SSH reverse-tunnel manager of iot-image (ssh_tunnel.py): the registry   *)
(* (_tunnel_instance, create_ssh_tunnel, stop_ssh_tunnel), the SSHTunnel   *)
(* objects with their supervisor worker threads (start_tunnel.tunnel_worker*)
(* running connect), stop_tunnel/disconnect on the host thread, and the    *)
(* per-connection forwarder (_handle_tunnel_connection.forward_data), the  *)
(* key loader (_get_ssh_key), and of main.py the lifespan hook that starts *)
(* and stops the tunnel and the value the health check reports.            *)
(*                                                                         *)
(* Threads interleave at every read or write of a shared field; one action *)
(* is one such step, named after the statement it models.                  *)
(***************************************************************************)
EXTENDS Integers, Sequences, FiniteSets, TLC

\* ------------------------------------------------------------------ bounds
\* SSHTunnel objects the host constructs (successful create_ssh_tunnel calls)
\* in Spec and LiveSpec, where the relay changes at will.
MaxTunnels == 1
\* SSHTunnel objects the host constructs in RegistrySpec.
MaxStarts == 2
\* Un-closed SSHClient objects a tunnel has dropped: counted up to this many.
MaxLeaked == 1
\* Connect attempts begun after the stop request: counted up to this many.
MaxLate == 2

\* Bytes each peer of a forwarded connection writes at most.
StreamLen == 2
\* Bytes one recv returns at most (the model's stand-in for recv(4096)).
ChunkMax == 2
\* Inbound connections the relay opens on the forwarded port in ForwardSpec.
MaxConns == 2
\* local_socket.connect calls of one handler invocation: counted up to this.
MaxDials == 2
\* Inbound connections the relay opens in ServeSpec.
MaxServed == 1
\* Positional arguments of a call of a decorated function, at most.
MaxArgs == 2

Tunnels == 1..MaxStarts

\* The two copy threads of a forwarded connection: forward_data(channel,
\* local_socket, "tunnel->local") and forward_data(local_socket, channel,
\* "local->tunnel"); the two ends are the remote channel and the local socket.
Directions == {"t2l", "l2t"}
Ends == {"chan", "sock"}
Src(d) == IF d = "t2l" THEN "chan" ELSE "sock"
Dst(d) == IF d = "t2l" THEN "sock" ELSE "chan"
\* The bytes the peer at the source of a direction writes, in order.
Stream == [i \in 1..StreamLen |-> i]

\* The relay as a connect attempt finds it: unreachable or rejecting the
\* credentials ("down": ssh_client.connect raises), accepting the login but
\* refusing the tcpip-forward request ("noforward"), or fully serving ("up").
RelayModes == {"down", "noforward", "up"}

\* What lines 35-36 and _get_ssh_key leave a tunnel with: whether a private
\* key loads, whether a password is configured.
Configs == {[key |-> TRUE, pwd |-> FALSE], [key |-> FALSE, pwd |-> FALSE]}

\* Every pair of lines 35-36 and _get_ssh_key outcomes.
AllConfigs == [key : BOOLEAN, pwd : BOOLEAN]

\* The relay modes with one more: reachable and granting the forward, but
\* accepting the password only, not the key ("pwdonly").
AllRelayModes == RelayModes \cup {"pwdonly"}

\* The parameters SSHTunnel.__init__ declares (lines 22-28).
InitParams == {"private_server_port", "public_port", "ssh_user", "public_vps_ip",
               "ssh_password", "private_key_path", "passphrase"}
\* The keywords the lifespan hook passes (main.py lines 151-159).
LifespanKwargs == {"public_vps_ip", "ssh_server_port", "ssh_user", "ssh_password",
                   "public_port", "private_server_port"}
\* The keywords of a caller that passes what __init__ declares.
ApiKwargs == {"public_vps_ip", "ssh_user", "ssh_password", "public_port",
              "private_server_port"}

\* The port connect dials (line 156).
ConnectPort == 22
\* The SSH connection port when SSH_SERVER_PORT is not set (main.py line 129).
DefaultSshPort == 22
\* SSH_SERVER_PORT: 0 stands for not set.
SshPorts == {0, 22, 2222}
\* The environment main.py reads (lines 128-134): whether PUBLIC_VPS_IP,
\* SSH_USER and PUBLIC_PORT are set (PRIVATE_SERVER_PORT has a default), the
\* value of SSH_SERVER_PORT, and the credentials SSH_PRIVATE_KEY_PATH and
\* SSH_PASSWORD give.
Envs == [host : BOOLEAN, user : BOOLEAN, port : BOOLEAN, ssh_server_port : SshPorts,
         c : AllConfigs]
DefaultEnv == [host |-> TRUE, user |-> TRUE, port |-> TRUE, ssh_server_port |-> 0,
               c |-> [key |-> TRUE, pwd |-> FALSE]]
\* The environments that differ from DefaultEnv in SSH_SERVER_PORT only.
PortEnvs == {[DefaultEnv EXCEPT !.ssh_server_port = p] : p \in SshPorts}

\* The key-type parsers in the order of line 65.
ParserOrder == <<"RSA", "DSS", "ECDSA", "Ed25519">>
Parsers == {ParserOrder[i] : i \in 1..Len(ParserOrder)}
\* The files a key path can name: a PEM file ("BEGIN RSA/DSA/EC PRIVATE KEY") or
\* an OPENSSH-format file holding a key of one type, encrypted or not, or
\* anything else (no file, not a key).
KeyFiles ==
  {f \in [fmt : {"pem", "openssh", "garbage"}, type : Parsers, enc : BOOLEAN] :
     /\ f.fmt = "pem" => f.type # "Ed25519"
     /\ f.fmt = "garbage" => (f.type = "RSA" /\ ~f.enc)}
\* private_key_path: not set, resolvable, or one _resolve_path raises on
\* (Path.home() without a home directory, Path.resolve() on a symlink loop);
\* the passphrase: not set, the file's, or another.
KeyInputs == [path : {"unset", "ok", "unresolvable"}, file : KeyFiles,
              pass : {"none", "right", "wrong"}]
\* _get_ssh_key's input when it is not looked at.
NoKeyInput == [path |-> "unset", file |-> [fmt |-> "garbage", type |-> "RSA", enc |-> FALSE],
               pass |-> "none"]

\* ---------------------------------------------- log_utils.log_function_call
\* The values an argument takes.
ArgValues == {1, 2}
\* The positional arguments of a call: tuples of up to MaxArgs values.
ArgTuples == UNION {[1..n -> ArgValues] : n \in 0..MaxArgs}
\* The keyword arguments of a call: none, or param2=v.
KwargSets == {{}} \cup {{<<"param2", v>>} : v \in ArgValues}
\* A value a function returns or an exception it raises: its tag (the
\* exception's class), and the arguments it was computed from.
Value(r, a, k) == [r |-> r, a |-> a, k |-> k]
None == Value("None", <<>>, {})
\* How a call ends: it returns a value, or raises an exception.
Returns(v) == [kind |-> "return", val |-> v]
Raises(r) == [kind |-> "raise", val |-> Value(r, <<>>, {})]
\* The classes `except Exception` catches; CancelledError, KeyboardInterrupt
\* and SystemExit derive from BaseException only.
IsException(r) == r \in {"TypeError", "ValueError"}

\* The functions decorated: def or async def (inspect.iscoroutinefunction),
\* with one of these bodies:
\*   "process"     (param1, param2="default"), returning a value made of both
\*                 (test_logging.py lines 11-20);
\*   "status"      (), returning a constant (quick_test.py lines 17-19);
\*   "raises"      (*args, **kwargs), raising ValueError;
\*   "interrupted" (*args, **kwargs), ended by a BaseException that is not an
\*                 Exception (the task cancelled, the process interrupted).
Bodies == {"process", "status", "raises", "interrupted"}
Functions == [kind : {"sync", "async"}, body : Bodies]
\* The default of param2.
DefaultParam == 0
\* What the original function does when called (and, for async def, awaited)
\* with positional arguments a and keyword arguments k: Python binds the
\* arguments to the parameters, raising TypeError when they do not fit, and
\* runs the body.
Apply(f, a, k) ==
  CASE f.body = "process" ->
         IF Len(a) = 0 \/ Len(a) > 2 \/ (Len(a) = 2 /\ k # {}) THEN Raises("TypeError")
         ELSE IF Len(a) = 2 THEN Returns(Value("processed", <<a[1]>>, {<<"param2", a[2]>>}))
         ELSE IF k # {} THEN Returns(Value("processed", <<a[1]>>, k))
         ELSE Returns(Value("processed", <<a[1]>>, {<<"param2", DefaultParam>>}))
    [] f.body = "status" ->
         IF Len(a) > 0 \/ k # {} THEN Raises("TypeError")
         ELSE Returns(Value("ok", <<>>, {}))
    [] f.body = "raises" -> Raises("ValueError")
    [] OTHER -> Raises("CancelledError")
\* ------------------------------------------------- DataStore.register_device
\* The latest clock reading a run goes to.
MaxClock == 2
\* Device ids the callers register, and the keys of a device dict the calls
\* use; a key a dict does not hold is marked by Absent.
DeviceIds == {"cam1", "cam2"}
TextFields == {"id", "deviceId", "name", "status"}
NumberFields == {"errors", "lastSeen"}
Fields == TextFields \cup NumberFields
Absent(f) == IF f \in NumberFields THEN -1 ELSE "<absent>"
Has(d, f) == d[f] # Absent(f)
\* The dicts the callers pass: 'id' missing, empty or a device id; 'deviceId'
\* missing or a device id; with or without a name; no other key.
DeviceData ==
  {[f \in Fields |->
      CASE f = "id" -> i
        [] f = "deviceId" -> di
        [] f = "name" -> n
        [] OTHER -> Absent(f)] :
     i \in {"<absent>", ""} \cup DeviceIds,
     di \in {"<absent>", "cam2"},
     n \in {"<absent>", "n1", "n2"}}
NoData == [f \in Fields |-> Absent(f)]
\* not x, for the value of device_data.get(f): None and "" are falsy.
Falsy(d, f) == d[f] \in {"<absent>", ""}
\* data_store.py line 126: device_data.get('id');
\* main.py line 278: device_data.get('id') or device_data.get('deviceId').
DeviceIdOf(i, d) ==
  IF i = "main" /\ Falsy(d, "id") THEN d["deviceId"] ELSE d["id"]
\* dict.update: every key of d is assigned, the others are left.
Update(e, d) == [f \in Fields |-> IF Has(d, f) THEN d[f] ELSE e[f]]
\* data_store.py lines 135-136, main.py lines 293-296: the dict stored for a
\* new device is the caller's, with lastSeen set and, in main.py, status and
\* errors defaulted.
NewDevice(i, d, now) ==
  [f \in Fields |->
     CASE f = "lastSeen" -> now
       [] f = "status" /\ i = "main" /\ ~Has(d, f) -> "online"
       [] f = "errors" /\ i = "main" /\ ~Has(d, f) -> 0
       [] OTHER -> d[f]]
\* self.devices holds no dict for a device id.
NoEntry == [f \in Fields |-> Absent(f)]
NoRegistration == [kind |-> "none", id |-> "<absent>"]

\* No call has ended.
NoOutcome == [kind |-> "none", val |-> None]
NoArgs == [a |-> <<>>, k |-> {}]

VARIABLES
  instance,          \* _tunnel_instance: 0 is None, else the SSHTunnel's id
  created,           \* SSHTunnel objects constructed so far (ids 1..created)
  cfg,               \* per tunnel: its credentials (immutable)
  should_reconnect,  \* per tunnel: self.should_reconnect
  is_connected,      \* per tunnel: self.is_connected
  ssh_client,        \* per tunnel: self.ssh_client: "None" or "cur", the
                     \*   SSHClient object line 150 created last
  transport,         \* per tunnel: self.transport: "None", "cur" (of the
                     \*   latest SSHClient) or "stale" (of an earlier one)
  client,            \* per tunnel: the latest SSHClient object: "none" (never
                     \*   created), "new", "open" (connected), "closed"
  active,            \* per tunnel: transport.is_active() of the latest client
  leaked,            \* per tunnel: earlier SSHClient objects dropped un-closed
  wpc,               \* per tunnel: where its tunnel_worker thread stands
  relay,             \* the relay host, see RelayModes
  hpc,               \* where the host thread stands: "idle" between calls,
                     \*   a line of the call it is in, "ret" as the call returns
  hcall,             \* the call the host is in: [op, host, c, t]
  hret,              \* what the returning call returns (0 is None)
  hraised,           \* whether an exception reached the host thread
  ssh_tunnel_instance, \* main.py's global: what create_ssh_tunnel returned to
                     \*   the host last (0 is None)
  lpc,               \* where the application's lifespan hook stands
  env,               \* the process environment the application reads
  kin,               \* _get_ssh_key: the key path, file and passphrase it is
                     \*   called with
  kpc,               \* _get_ssh_key: where the call stands
  ktried,            \* _get_ssh_key: the parsers called so far, in order
  kres,              \* _get_ssh_key: what it returned ("None" or the key type)
  firstHandle,       \* history: the handle the first successful Start returned
  late,              \* history, per tunnel: connect attempts begun with
                     \*   should_reconnect already False
  inbound,           \* inbound connections the relay has opened whose handler
                     \*   the transport thread has not invoked yet
  served,            \* inbound connections whose handler has been invoked
  hdl,               \* the transport thread in _handle_tunnel_connection for
                     \*   the connection it took last: "none" (never invoked),
                     \*   "dial", "join", "returned"
  dials,             \* local_socket.connect calls made for that connection
  fpc,               \* per direction: where its forward_data thread stands
  avail,             \* per direction: bytes the source's peer has written
  rd,                \* per direction: bytes recv has returned so far
  data,              \* per direction: the chunk recv returned last
  delivered,         \* per direction: bytes the destination's send accepted
  peerClosed,        \* per end: its peer (remote client, local service) closed
  closed,            \* per end: close() was called on it here
  logfn,             \* log_function_call: the function it decorated (func)
  logpc,             \* where a call of the wrapper it returned stands
  logcall,           \* the arguments the caller gave the wrapper: [a, k]
  logrecv,           \* the arguments func was called with: [a, k]
  result,            \* the wrapper's local: what func returned
  exc,               \* the exception the wrapper's except clause caught
  logout,            \* how the wrapper's call ended for its caller
  impl,              \* which DataStore class is in use: "data_store" or "main"
  devices,           \* DataStore.devices: per device id, its dict or NoEntry
  regcall,           \* the device_data of the latest register_device call
  regout,            \* how that call ended: [kind, id]; a call that returns
                     \*   returns self.devices[id] itself
  clock,             \* time.time()
  registered         \* the device ids register_device has returned for

tvars == <<cfg, should_reconnect, is_connected, ssh_client, transport, client,
           active, leaked, wpc, late>>
hvars == <<hpc, hcall, hret, hraised, ssh_tunnel_instance, lpc>>
kvars == <<kin, kpc, ktried, kres>>
cvars == <<fpc, avail, rd, data, delivered, peerClosed, closed>>
fvars == <<inbound, served, hdl, dials, cvars>>
lvars == <<logfn, logpc, logcall, logrecv, result, exc, logout>>
svars == <<impl, devices, regcall, regout, clock, registered>>
ovars == <<lvars, svars>>
vars == <<instance, created, tvars, relay, hvars, firstHandle, fvars, env, kvars,
          ovars>>

NoCall == [op |-> "none", host |-> FALSE, c |-> [key |-> FALSE, pwd |-> FALSE],
           kw |-> {}, t |-> 0]

Min(a, b) == IF a < b THEN a ELSE b

\* ------------------------------------------------------------------ Init
\* Module load: _tunnel_instance = None (line 255); no SSHTunnel exists. The
\* relay starts in a mode of R, the environment is one of E and the key
\* loader's input one of K.
InitTunnel(R, E, K) ==
  /\ instance = 0
  /\ created = 0
  /\ cfg = [t \in Tunnels |-> [key |-> FALSE, pwd |-> FALSE]]
  /\ should_reconnect = [t \in Tunnels |-> TRUE]
  /\ is_connected = [t \in Tunnels |-> FALSE]
  /\ ssh_client = [t \in Tunnels |-> "None"]
  /\ transport = [t \in Tunnels |-> "None"]
  /\ client = [t \in Tunnels |-> "none"]
  /\ active = [t \in Tunnels |-> FALSE]
  /\ leaked = [t \in Tunnels |-> 0]
  /\ wpc = [t \in Tunnels |-> "nothread"]
  /\ late = [t \in Tunnels |-> 0]
  /\ relay \in R
  /\ hpc = "idle"
  /\ hcall = NoCall
  /\ hret = 0
  /\ hraised = FALSE
  /\ ssh_tunnel_instance = 0
  /\ lpc = "startup"
  /\ env \in E
  /\ kin \in K
  /\ kpc = "idle"
  /\ ktried = <<>>
  /\ kres = "None"
  /\ firstHandle = 0
  /\ inbound = 0
  /\ served = 0
  /\ hdl = "none"
  /\ dials = 0
  /\ fpc = [d \in Directions |-> "nothread"]
  /\ avail = [d \in Directions |-> 0]
  /\ rd = [d \in Directions |-> 0]
  /\ data = [d \in Directions |-> <<>>]
  /\ delivered = [d \in Directions |-> <<>>]
  /\ peerClosed = [e \in Ends |-> FALSE]
  /\ closed = [e \in Ends |-> FALSE]

\* log_function_call(func) has returned the wrapper for a function of F; the
\* wrapper has not been called.
InitLog(F) ==
  /\ logfn \in F
  /\ logpc = "idle"
  /\ logcall = NoArgs
  /\ logrecv = NoArgs
  /\ result = None
  /\ exc = None
  /\ logout = NoOutcome

\* data_store.py line 15, main.py line 266: self.devices = {}.
InitStore(I) ==
  /\ impl \in I
  /\ devices = [i \in DeviceIds |-> NoEntry]
  /\ regcall = NoData
  /\ regout = NoRegistration
  /\ clock = 1
  /\ registered = {}

InitWith(R, E, K) ==
  /\ InitTunnel(R, E, K)
  /\ InitLog({[kind |-> "sync", body |-> "status"]})
  /\ InitStore({"data_store"})

Init == InitWith(RelayModes, {DefaultEnv}, {NoKeyInput})

\* ------------------------------------------------- tunnel_worker / connect
AuthChoice_NoFailFast(c) ==
  IF c.key THEN "pkey" ELSE "password"

\* lines 164-173: the credential connect presents ("none": it returns False).
AuthChoice(c) ==
  IF c.key THEN "pkey" ELSE IF c.pwd THEN "password" ELSE "none"

\* Unchanged fields of a worker step that touches none of the host's state.
WorkerFrame ==
  UNCHANGED <<instance, created, cfg, relay, hvars, firstHandle, fvars, env,
              kvars, ovars>>

WorkerLoop_NoStopCheck(t) ==
  /\ wpc[t] = "L220"
  /\ wpc' = [wpc EXCEPT ![t] = "L222"]
  /\ UNCHANGED <<should_reconnect, is_connected, ssh_client, transport, client,
                 active, leaked, late>>
  /\ WorkerFrame

\* line 220: while self.should_reconnect
WorkerLoop(t) ==
  /\ wpc[t] = "L220"
  /\ wpc' = [wpc EXCEPT ![t] = IF should_reconnect[t] THEN "L222" ELSE "done"]
  /\ UNCHANGED <<should_reconnect, is_connected, ssh_client, transport, client,
                 active, leaked, late>>
  /\ WorkerFrame

\* lines 222, 235-236: if not self.is_connected: enter connect();
\* else time.sleep(1) and back to the loop condition.
WorkerCheckConnected(t) ==
  /\ wpc[t] = "L222"
  /\ wpc' = [wpc EXCEPT ![t] = IF is_connected[t] THEN "L220" ELSE "L150"]
  /\ UNCHANGED <<should_reconnect, is_connected, ssh_client, transport, client,
                 active, leaked, late>>
  /\ WorkerFrame

\* lines 150-173: self.ssh_client = paramiko.SSHClient() replaces the reference
\* to the previous client without closing it; then the credential is chosen,
\* and with none connect returns False (line 173), the worker going to its
\* backoff sleep (line 234).
ConnectCreateClient(t) ==
  /\ wpc[t] = "L150"
  /\ ssh_client' = [ssh_client EXCEPT ![t] = "cur"]
  /\ client' = [client EXCEPT ![t] = "new"]
  /\ active' = [active EXCEPT ![t] = FALSE]
  /\ leaked' = [leaked EXCEPT ![t] =
                  IF client[t] = "open" THEN Min(@ + 1, MaxLeaked) ELSE @]
  /\ transport' = [transport EXCEPT ![t] = IF @ = "cur" THEN "stale" ELSE @]
  /\ late' = [late EXCEPT ![t] =
                IF should_reconnect[t] THEN @ ELSE Min(@ + 1, MaxLate)]
  /\ wpc' = [wpc EXCEPT ![t] =
               IF AuthChoice(cfg[t]) = "none" THEN "L234" ELSE "L176"]
  /\ UNCHANGED <<should_reconnect, is_connected>>
  /\ WorkerFrame

\* line 176, the call: self.ssh_client is read; None (disconnect ran) raises
\* AttributeError, caught at line 198, and connect returns False.
ConnectBegin(t) ==
  /\ wpc[t] = "L176"
  /\ wpc' = [wpc EXCEPT ![t] = IF ssh_client[t] = "None" THEN "L234" ELSE "L176r"]
  /\ UNCHANGED <<should_reconnect, is_connected, ssh_client, transport, client,
                 active, leaked, late>>
  /\ WorkerFrame

\* Whether the relay, reachable, accepts a credential.
RelayAccepts(cred) ==
  \/ relay \in {"up", "noforward"}
  \/ relay = "pwdonly" /\ cred = "password"

\* What SSHClient.connect can do when it returns: it raises when the relay is
\* down or does not accept the one credential of connect_kwargs (lines 167,
\* 170); when close() ran on the client during the call (disconnect, line 210)
\* it either raises (the transport was already there and got closed) or goes
\* through (close() found no transport yet and did nothing).
ConnectOutcomes(t) ==
  IF relay = "down" \/ ~RelayAccepts(AuthChoice(cfg[t])) THEN {"raise"}
  ELSE IF client[t] = "closed" THEN {"raise", "ok"}
  ELSE {"ok"}

ConnectEnd_Uncaught(t) ==
  /\ wpc[t] = "L176r"
  /\ \E o \in ConnectOutcomes(t) :
       IF o = "ok"
       THEN /\ client' = [client EXCEPT ![t] = "open"]
            /\ active' = [active EXCEPT ![t] = TRUE]
            /\ wpc' = [wpc EXCEPT ![t] = "L177"]
       ELSE /\ UNCHANGED <<client, active>>
            /\ wpc' = [wpc EXCEPT ![t] = "done"]
  /\ UNCHANGED <<should_reconnect, is_connected, ssh_client, transport, leaked, late>>
  /\ WorkerFrame

\* line 176, the return: on "ok" the client is connected and its transport
\* active; an exception is caught at lines 194-199 and connect returns False.
ConnectEnd(t) ==
  /\ wpc[t] = "L176r"
  /\ \E o \in ConnectOutcomes(t) :
       IF o = "ok"
       THEN /\ client' = [client EXCEPT ![t] = "open"]
            /\ active' = [active EXCEPT ![t] = TRUE]
            /\ wpc' = [wpc EXCEPT ![t] = "L177"]
       ELSE /\ UNCHANGED <<client, active>>
            /\ wpc' = [wpc EXCEPT ![t] = "L234"]
  /\ UNCHANGED <<should_reconnect, is_connected, ssh_client, transport, leaked, late>>
  /\ WorkerFrame

\* line 177: self.transport = self.ssh_client.get_transport(); with
\* self.ssh_client None this raises AttributeError (caught, return False).
ConnectGetTransport(t) ==
  /\ wpc[t] = "L177"
  /\ IF ssh_client[t] = "None"
     THEN /\ wpc' = [wpc EXCEPT ![t] = "L234"]
          /\ UNCHANGED transport
     ELSE /\ wpc' = [wpc EXCEPT ![t] = "L183"]
          /\ transport' = [transport EXCEPT ![t] = "cur"]
  /\ UNCHANGED <<should_reconnect, is_connected, ssh_client, client, active,
                 leaked, late>>
  /\ WorkerFrame

\* Whether the relay grants the forward asked on self.transport.
ForwardGranted(t) ==
  transport[t] = "cur" /\ client[t] = "open" /\ active[t] /\ relay \in {"up", "pwdonly"}

ConnectRequestForward_IgnoresRefusal(t) ==
  /\ wpc[t] = "L183"
  /\ wpc' = [wpc EXCEPT ![t] = "L186"]
  /\ UNCHANGED <<should_reconnect, is_connected, ssh_client, transport, client,
                 active, leaked, late>>
  /\ WorkerFrame

\* lines 183-184: self.transport.request_port_forward(...); a refusal or a
\* dead transport raises into the inner handler (line 189).
ConnectRequestForward(t) ==
  /\ wpc[t] = "L183"
  /\ wpc' = [wpc EXCEPT ![t] = IF ForwardGranted(t) THEN "L186" ELSE "L191"]
  /\ UNCHANGED <<should_reconnect, is_connected, ssh_client, transport, client,
                 active, leaked, late>>
  /\ WorkerFrame

ConnectForwardFailed_NoBackoff(t) ==
  /\ wpc[t] = "L191"
  /\ IF ssh_client[t] = "None"
     THEN UNCHANGED <<client, active>>
     ELSE /\ client' = [client EXCEPT ![t] = "closed"]
          /\ active' = [active EXCEPT ![t] = FALSE]
  /\ wpc' = [wpc EXCEPT ![t] = "L220"]
  /\ UNCHANGED <<should_reconnect, is_connected, ssh_client, transport, leaked, late>>
  /\ WorkerFrame

\* lines 189-192: self.ssh_client.close(); return False. With self.ssh_client
\* None the AttributeError is caught at line 198; connect returns False too.
ConnectForwardFailed(t) ==
  /\ wpc[t] = "L191"
  /\ IF ssh_client[t] = "None"
     THEN UNCHANGED <<client, active>>
     ELSE /\ client' = [client EXCEPT ![t] = "closed"]
          /\ active' = [active EXCEPT ![t] = FALSE]
  /\ wpc' = [wpc EXCEPT ![t] = "L234"]
  /\ UNCHANGED <<should_reconnect, is_connected, ssh_client, transport, leaked, late>>
  /\ WorkerFrame

ConnectSetConnected_Forgets(t) ==
  /\ wpc[t] = "L186"
  /\ wpc' = [wpc EXCEPT ![t] = "L225"]
  /\ UNCHANGED <<should_reconnect, is_connected, ssh_client, transport, client,
                 active, leaked, late>>
  /\ WorkerFrame

\* lines 186-187: self.is_connected = True; return True.
ConnectSetConnected(t) ==
  /\ wpc[t] = "L186"
  /\ is_connected' = [is_connected EXCEPT ![t] = TRUE]
  /\ wpc' = [wpc EXCEPT ![t] = "L225"]
  /\ UNCHANGED <<should_reconnect, ssh_client, transport, client, active,
                 leaked, late>>
  /\ WorkerFrame

MonitorCheck_IgnoresStop(t) ==
  /\ wpc[t] = "L225"
  /\ wpc' = [wpc EXCEPT ![t] = IF is_connected[t] THEN "L226" ELSE "L220"]
  /\ UNCHANGED <<should_reconnect, is_connected, ssh_client, transport, client,
                 active, leaked, late>>
  /\ WorkerFrame

\* line 225: while self.is_connected and self.should_reconnect
MonitorCheck(t) ==
  /\ wpc[t] = "L225"
  /\ wpc' = [wpc EXCEPT ![t] =
               IF is_connected[t] /\ should_reconnect[t] THEN "L226" ELSE "L220"]
  /\ UNCHANGED <<should_reconnect, is_connected, ssh_client, transport, client,
                 active, leaked, late>>
  /\ WorkerFrame

\* What line 226 reads: self.transport and self.transport.is_active()
TransportIsActive(t) == transport[t] = "cur" /\ active[t]

MonitorPoll_NeverLost(t) ==
  /\ wpc[t] = "L226"
  /\ wpc' = [wpc EXCEPT ![t] = "L225"]
  /\ UNCHANGED <<should_reconnect, is_connected, ssh_client, transport, client,
                 active, leaked, late>>
  /\ WorkerFrame

\* lines 226-231: the liveness poll: sleep 10 s while the transport is active,
\* else self.is_connected = False and break.
MonitorPoll(t) ==
  /\ wpc[t] = "L226"
  /\ IF TransportIsActive(t)
     THEN /\ wpc' = [wpc EXCEPT ![t] = "L225"]
          /\ UNCHANGED is_connected
     ELSE /\ wpc' = [wpc EXCEPT ![t] = "L220"]
          /\ is_connected' = [is_connected EXCEPT ![t] = FALSE]
  /\ UNCHANGED <<should_reconnect, ssh_client, transport, client, active,
                 leaked, late>>
  /\ WorkerFrame

\* lines 233-234: connect returned False: time.sleep(10), then the loop again.
WorkerBackoff(t) ==
  /\ wpc[t] = "L234"
  /\ wpc' = [wpc EXCEPT ![t] = "L220"]
  /\ UNCHANGED <<should_reconnect, is_connected, ssh_client, transport, client,
                 active, leaked, late>>
  /\ WorkerFrame

\* One step of tunnel t's worker thread.
Worker(t) ==
  \/ WorkerLoop(t)
  \/ WorkerCheckConnected(t)
  \/ ConnectCreateClient(t)
  \/ ConnectBegin(t)
  \/ ConnectEnd(t)
  \/ ConnectGetTransport(t)
  \/ ConnectRequestForward(t)
  \/ ConnectForwardFailed(t)
  \/ ConnectSetConnected(t)
  \/ MonitorCheck(t)
  \/ MonitorPoll(t)
  \/ WorkerBackoff(t)

\* ------------------------------------------------------------ environment
\* The relay changes what it does; going down kills every live transport.
RelaySet(m) ==
  /\ m # relay
  /\ relay' = m
  /\ active' = [t \in Tunnels |-> IF m = "down" THEN FALSE ELSE active[t]]
  /\ UNCHANGED <<instance, created, cfg, should_reconnect, is_connected,
                 ssh_client, transport, client, leaked, wpc, late, hvars,
                 firstHandle, fvars, env, kvars, ovars>>

\* ------------------------------------------------------- the host thread
\* The host (the application's lifespan hook, or any holder of a handle)
\* calls from one thread: a call starts when the previous one has returned.
HostFrame ==
  UNCHANGED <<created, cfg, relay, firstHandle, late, fvars, env, kvars,
              ovars, ssh_tunnel_instance, lpc>>
TunnelFields == <<should_reconnect, is_connected, ssh_client, transport,
                  client, active, leaked, wpc>>

\* The host calls create_ssh_tunnel(**kwargs): host says whether a relay host
\* resolves (argument or PUBLIC_VPS_IP), c is the credentials it resolves.
\* At most n SSHTunnel objects are constructed.
CallCreate(n, host, c) ==
  /\ hpc = "idle"
  /\ host => created < n
  /\ hpc' = "C262"
  /\ hcall' = [op |-> "create_ssh_tunnel", host |-> host, c |-> c,
               kw |-> ApiKwargs, t |-> 0]
  /\ UNCHANGED <<instance, hret, hraised>> /\ UNCHANGED TunnelFields /\ HostFrame

\* lines 261-264 with SSHTunnel.__init__ (lines 21-46) and start_tunnel
\* (lines 243-244). A keyword __init__ does not declare raises TypeError as
\* SSHTunnel(**kwargs) is called, and without a relay host __init__ raises
\* ValueError (line 46): both before line 262 assigns _tunnel_instance and
\* before start_tunnel runs.
\* Otherwise the new object is registered, replacing whatever _tunnel_instance
\* held, its worker thread is started and it is returned.
CreateSshTunnel ==
  /\ hpc = "C262"
  /\ IF hcall.kw \subseteq InitParams /\ hcall.host
     THEN LET t == created + 1 IN
          /\ created' = t
          /\ cfg' = [cfg EXCEPT ![t] = hcall.c]
          /\ should_reconnect' = [should_reconnect EXCEPT ![t] = TRUE]
          /\ is_connected' = [is_connected EXCEPT ![t] = FALSE]
          /\ ssh_client' = [ssh_client EXCEPT ![t] = "None"]
          /\ transport' = [transport EXCEPT ![t] = "None"]
          /\ wpc' = [wpc EXCEPT ![t] = "L220"]
          /\ instance' = t
          /\ hret' = t
          /\ hpc' = "ret"
          /\ firstHandle' = IF firstHandle = 0 THEN t ELSE firstHandle
          /\ UNCHANGED <<client, active, leaked>>
     ELSE /\ hpc' = "C265"
          /\ UNCHANGED <<instance, created, cfg, firstHandle, hret>>
          /\ UNCHANGED TunnelFields
  /\ UNCHANGED <<hcall, hraised, relay, late, fvars, env, kvars, ovars,
                 ssh_tunnel_instance, lpc>>

CreateExcept_ClearsRegistry ==
  /\ hpc = "C265"
  /\ hret' = 0
  /\ hpc' = "ret"
  /\ instance' = 0
  /\ UNCHANGED <<hcall, hraised>> /\ UNCHANGED TunnelFields /\ HostFrame

\* lines 265-267: except Exception: log and return None.
CreateExcept ==
  /\ hpc = "C265"
  /\ hret' = 0
  /\ hpc' = "ret"
  /\ UNCHANGED <<instance, hcall, hraised>> /\ UNCHANGED TunnelFields /\ HostFrame

\* The host calls stop_ssh_tunnel().
CallStopSsh ==
  /\ hpc = "idle"
  /\ hpc' = "S276"
  /\ hcall' = [op |-> "stop_ssh_tunnel", host |-> FALSE, c |-> NoCall.c,
               kw |-> {}, t |-> 0]
  /\ UNCHANGED <<instance, hret, hraised>> /\ UNCHANGED TunnelFields /\ HostFrame

\* line 276: if _tunnel_instance: enter stop_tunnel on it; else return.
StopCheckInstance ==
  /\ hpc = "S276"
  /\ IF instance = 0
     THEN /\ hpc' = "ret"
          /\ hret' = 0
          /\ UNCHANGED hcall
     ELSE /\ hpc' = "D205"
          /\ hcall' = [hcall EXCEPT !.t = instance]
          /\ UNCHANGED hret
  /\ UNCHANGED <<instance, hraised>> /\ UNCHANGED TunnelFields /\ HostFrame

\* The host calls stop_tunnel() on a handle it was given.
CallStopTunnel(t) ==
  /\ hpc = "idle"
  /\ t \in 1..created
  /\ hpc' = "D205"
  /\ hcall' = [op |-> "stop_tunnel", host |-> FALSE, c |-> NoCall.c,
               kw |-> {}, t |-> t]
  /\ UNCHANGED <<instance, hret, hraised>> /\ UNCHANGED TunnelFields /\ HostFrame

\* line 205: self.should_reconnect = False
DisconnectStopRequest ==
  /\ hpc = "D205"
  /\ should_reconnect' = [should_reconnect EXCEPT ![hcall.t] = FALSE]
  /\ hpc' = "D206"
  /\ UNCHANGED <<instance, hcall, hret, hraised, is_connected, ssh_client,
                 transport, client, active, leaked, wpc>>
  /\ HostFrame

\* line 206: self.is_connected = False
DisconnectClearConnected ==
  /\ hpc = "D206"
  /\ is_connected' = [is_connected EXCEPT ![hcall.t] = FALSE]
  /\ hpc' = "D208"
  /\ UNCHANGED <<instance, hcall, hret, hraised, should_reconnect, ssh_client,
                 transport, client, active, leaked, wpc>>
  /\ HostFrame

DisconnectCheckClient_NoGuard ==
  /\ hpc = "D208"
  /\ IF ssh_client[hcall.t] = "None"
     THEN hpc' = "ret" /\ hraised' = TRUE
     ELSE hpc' = "D210" /\ UNCHANGED hraised
  /\ UNCHANGED <<instance, hcall, hret>> /\ UNCHANGED TunnelFields
  /\ HostFrame

\* line 208: if self.ssh_client
DisconnectCheckClient ==
  /\ hpc = "D208"
  /\ hpc' = IF ssh_client[hcall.t] = "None" THEN "J250" ELSE "D210"
  /\ UNCHANGED <<instance, hcall, hret, hraised>> /\ UNCHANGED TunnelFields
  /\ HostFrame

\* A forwarded connection is in flight: its handler has not returned.
InFlight == hdl \in {"dial", "join"}

DisconnectClose_LeavesChannels ==
  /\ hpc = "D210"
  /\ client' = [client EXCEPT ![hcall.t] = "closed"]
  /\ active' = [active EXCEPT ![hcall.t] = FALSE]
  /\ \E raises \in BOOLEAN : hpc' = IF raises THEN "D211" ELSE "D213"
  /\ UNCHANGED <<instance, hcall, hret, hraised, should_reconnect, is_connected,
                 ssh_client, transport, leaked, wpc>>
  /\ HostFrame

\* lines 209-210: self.ssh_client.close(), inside the try. The client the
\* field names now is closed (the worker's line 150 may have replaced the one
\* line 208 saw); close() may raise on its way. Closing the client closes its
\* transport and with it the channel of a connection in flight: what the
\* channel still holds can be read, then recv returns b"" (the specifications
\* with forwarded connections have one tunnel, whose connection it is); the
\* channel-opens the transport thread has not read are never handled.
DisconnectClose ==
  /\ hpc = "D210"
  /\ client' = [client EXCEPT ![hcall.t] = "closed"]
  /\ active' = [active EXCEPT ![hcall.t] = FALSE]
  /\ peerClosed' = IF InFlight THEN [peerClosed EXCEPT !["chan"] = TRUE]
                   ELSE peerClosed
  /\ \E raises \in BOOLEAN : hpc' = IF raises THEN "D211" ELSE "D213"
  /\ UNCHANGED <<instance, hcall, hret, hraised, should_reconnect, is_connected,
                 ssh_client, transport, leaked, wpc>>
  /\ UNCHANGED <<created, cfg, relay, firstHandle, late, env, kvars, ovars,
                 ssh_tunnel_instance, lpc>>
  /\ inbound' = 0
  /\ UNCHANGED <<served, hdl, dials, fpc, avail, rd, data, delivered, closed>>

DisconnectExcept_Reraises ==
  /\ hpc = "D211"
  /\ hpc' = "ret"
  /\ hraised' = TRUE
  /\ UNCHANGED <<instance, hcall, hret>> /\ UNCHANGED TunnelFields /\ HostFrame

\* lines 211-212: except: pass
DisconnectExcept ==
  /\ hpc = "D211"
  /\ hpc' = "D213"
  /\ UNCHANGED <<instance, hcall, hret, hraised>> /\ UNCHANGED TunnelFields
  /\ HostFrame

\* line 213: self.ssh_client = None
DisconnectDropClient ==
  /\ hpc = "D213"
  /\ ssh_client' = [ssh_client EXCEPT ![hcall.t] = "None"]
  /\ hpc' = "J250"
  /\ UNCHANGED <<instance, hcall, hret, hraised, should_reconnect, is_connected,
                 transport, client, active, leaked, wpc>>
  /\ HostFrame

\* lines 250-251: join(timeout=5) returns when the worker has ended or when
\* the five seconds are over, whichever comes first; stop_tunnel returns.
StopJoin ==
  /\ hpc = "J250"
  /\ IF hcall.op = "stop_ssh_tunnel"
     THEN hpc' = "S278" /\ UNCHANGED hret
     ELSE hpc' = "ret" /\ hret' = 0
  /\ UNCHANGED <<instance, hcall, hraised>> /\ UNCHANGED TunnelFields /\ HostFrame

StopClearInstance_Keeps ==
  /\ hpc = "S278"
  /\ hpc' = "ret"
  /\ hret' = 0
  /\ UNCHANGED <<instance, hcall, hraised>> /\ UNCHANGED TunnelFields /\ HostFrame

\* line 278: _tunnel_instance = None; stop_ssh_tunnel returns.
StopClearInstance ==
  /\ hpc = "S278"
  /\ instance' = 0
  /\ hpc' = "ret"
  /\ hret' = 0
  /\ UNCHANGED <<hcall, hraised>> /\ UNCHANGED TunnelFields /\ HostFrame

\* The call returns to the host, which keeps what create_ssh_tunnel returned
\* in its global (main.py line 151: ssh_tunnel_instance = create_ssh_tunnel(...))
\* and goes on with its own work.
HostReturn ==
  /\ hpc = "ret"
  /\ hpc' = "idle"
  /\ hcall' = NoCall
  /\ hret' = 0
  /\ ssh_tunnel_instance' =
       IF hcall.op = "create_ssh_tunnel" THEN hret ELSE ssh_tunnel_instance
  /\ UNCHANGED <<instance, hraised, lpc>> /\ UNCHANGED TunnelFields
  /\ UNCHANGED <<created, cfg, relay, firstHandle, late, fvars, env, kvars,
                 ovars>>

\* A step of a call the host is in.
HostStep ==
  \/ HostReturn
  \/ CreateSshTunnel
  \/ CreateExcept
  \/ StopCheckInstance
  \/ DisconnectStopRequest
  \/ DisconnectClearConnected
  \/ DisconnectCheckClient
  \/ DisconnectClose
  \/ DisconnectExcept
  \/ DisconnectDropClient
  \/ StopJoin
  \/ StopClearInstance

\* The host starts a call.
HostCall(n, C) ==
  \/ \E host \in BOOLEAN, c \in C : CallCreate(n, host, c)
  \/ CallStopSsh
  \/ \E t \in Tunnels : CallStopTunnel(t)

\* ------------------------------------------------------- specifications
Next ==
  \/ HostCall(MaxTunnels, Configs)
  \/ HostStep
  \/ \E t \in Tunnels : Worker(t)
  \/ \E m \in RelayModes : RelaySet(m)

Spec == Init /\ [][Next]_vars

\* The threads are scheduled: a worker thread that can take a step takes one
\* (every blocking call in it is bounded: connect by its 20 s timeout, the
\* sleeps by their length), and so does the host thread inside a call. When
\* the host calls and what the relay does are not constrained.
LiveSpec ==
  /\ Init
  /\ [][Next]_vars
  /\ \A t \in Tunnels : WF_vars(Worker(t))
  /\ WF_vars(HostStep)

\* The registry with several Start calls: the relay keeps the mode it starts
\* in and every tunnel is configured with a key.
RegistryNext ==
  \/ HostCall(MaxStarts, {[key |-> TRUE, pwd |-> FALSE]})
  \/ HostStep
  \/ \E t \in Tunnels : Worker(t)

RegistrySpec == Init /\ [][RegistryNext]_vars

\* ------------------------------------------ _handle_tunnel_connection
\* A forwarder step leaves the tunnel and the registry alone.
ForwardFrame ==
  UNCHANGED <<instance, created, tvars, relay, hvars, firstHandle, env, kvars,
              ovars>>

\* The relay opens one more inbound connection on the forwarded port: its
\* channel-open message waits for the transport thread. At most n arrive.
InboundArrives(n) ==
  /\ inbound + served < n
  /\ inbound' = inbound + 1
  /\ UNCHANGED <<served, hdl, dials, cvars>>
  /\ ForwardFrame

\* lines 183-184: the handler registered with request_port_forward is called
\* by the transport's own thread, synchronously, for each channel-open it
\* reads: the thread can take the next one when it is not inside a call.
TransportThreadFree == hdl \in {"none", "returned"}

\* The transport thread reads a channel-open and calls
\* _handle_tunnel_connection with the new channel; the handler creates the
\* local socket with a 10 s timeout (lines 84-88).
HandlerInvoked ==
  /\ inbound > 0
  /\ TransportThreadFree
  /\ inbound' = inbound - 1
  /\ served' = served + 1
  /\ hdl' = "dial"
  /\ dials' = 0
  /\ fpc' = [d \in Directions |-> "nothread"]
  /\ avail' = [d \in Directions |-> 0]
  /\ rd' = [d \in Directions |-> 0]
  /\ data' = [d \in Directions |-> <<>>]
  /\ delivered' = [d \in Directions |-> <<>>]
  /\ peerClosed' = [e \in Ends |-> FALSE]
  /\ closed' = [e \in Ends |-> FALSE]
  /\ ForwardFrame

HandlerDial_Retries ==
  /\ hdl = "dial"
  /\ dials < MaxDials
  /\ dials' = dials + 1
  /\ \E ok \in BOOLEAN :
       IF ok
       THEN /\ hdl' = "join"
            /\ fpc' = [d \in Directions |-> "recv"]
       ELSE UNCHANGED <<hdl, fpc>>
  /\ UNCHANGED <<inbound, served, avail, rd, data, delivered, peerClosed, closed>>
  /\ ForwardFrame

\* lines 90-97 and 117-129: local_socket.connect; on failure both ends are
\* closed and the handler returns (through the finally at lines 137-142), on
\* success the two forward_data threads are started.
HandlerDial ==
  /\ hdl = "dial"
  /\ dials' = Min(dials + 1, MaxDials)
  /\ \E ok \in BOOLEAN :
       IF ok
       THEN /\ hdl' = "join"
            /\ fpc' = [d \in Directions |-> "recv"]
            /\ UNCHANGED closed
       ELSE /\ hdl' = "returned"
            /\ closed' = [e \in Ends |-> TRUE]
            /\ UNCHANGED fpc
  /\ UNCHANGED <<inbound, served, avail, rd, data, delivered, peerClosed>>
  /\ ForwardFrame

\* The peer at an end (the remote client for the channel, the local service
\* for the socket) writes its next byte.
PeerWrite(d) ==
  /\ hdl = "join"
  /\ ~peerClosed[Src(d)]
  /\ avail[d] < StreamLen
  /\ avail' = [avail EXCEPT ![d] = @ + 1]
  /\ UNCHANGED <<inbound, served, hdl, dials, fpc, rd, data, delivered, peerClosed, closed>>
  /\ ForwardFrame

\* The peer at an end closes its side of the connection.
PeerClose(e) ==
  /\ hdl = "join"
  /\ ~peerClosed[e]
  /\ peerClosed' = [peerClosed EXCEPT ![e] = TRUE]
  /\ UNCHANGED <<inbound, served, hdl, dials, fpc, avail, rd, data, delivered, closed>>
  /\ ForwardFrame

\* lines 103-105 and 107: data = source.recv(4096). On an end closed here the
\* channel's recv returns b"" and the socket's raises; otherwise recv returns
\* up to a chunk of what the peer has written; with nothing left it returns
\* b"" once the peer has closed, the socket's recv raises its 10 s timeout,
\* and the channel's recv blocks. b"" and an exception both end the loop.
ForwardRecv(d) ==
  /\ fpc[d] = "recv"
  /\ IF closed[Src(d)]
     THEN /\ fpc' = [fpc EXCEPT ![d] = "finally"]
          /\ UNCHANGED <<rd, data>>
     ELSE IF rd[d] < avail[d]
     THEN \E k \in 1..Min(ChunkMax, avail[d] - rd[d]) :
            /\ data' = [data EXCEPT ![d] = SubSeq(Stream, rd[d] + 1, rd[d] + k)]
            /\ rd' = [rd EXCEPT ![d] = @ + k]
            /\ fpc' = [fpc EXCEPT ![d] = "send"]
     ELSE /\ peerClosed[Src(d)] \/ Src(d) = "sock"
          /\ fpc' = [fpc EXCEPT ![d] = "finally"]
          /\ UNCHANGED <<rd, data>>
  /\ UNCHANGED <<inbound, served, hdl, dials, avail, delivered, peerClosed, closed>>
  /\ ForwardFrame

\* How many bytes of a chunk of n bytes one send call can take: send returns
\* the number it accepted, from 1 to n.
SendAccepts(n) == 1..n

\* line 106: destination.send(data), its return value dropped. send raises on
\* an end closed here and may raise once the peer has closed; the exception
\* ends the loop (line 107).
ForwardSend(d) ==
  /\ fpc[d] = "send"
  /\ \/ /\ closed[Dst(d)] \/ peerClosed[Dst(d)]
        /\ fpc' = [fpc EXCEPT ![d] = "finally"]
        /\ UNCHANGED delivered
     \/ /\ ~closed[Dst(d)]
        /\ \E n \in SendAccepts(Len(data[d])) :
             delivered' = [delivered EXCEPT ![d] = @ \o SubSeq(data[d], 1, n)]
        /\ fpc' = [fpc EXCEPT ![d] = "recv"]
  /\ UNCHANGED <<inbound, served, hdl, dials, avail, rd, data, peerClosed, closed>>
  /\ ForwardFrame

\* The ends forward_data closes when its loop has ended.
FinallyCloses_SourceOnly(d) == {Src(d)}

\* lines 109-114: source.close(); destination.close()
FinallyCloses(d) == {Src(d), Dst(d)}

ForwardFinally_MarksTunnelDown(d) ==
  /\ fpc[d] = "finally"
  /\ closed' = [e \in Ends |-> closed[e] \/ e \in FinallyCloses(d)]
  /\ fpc' = [fpc EXCEPT ![d] = "done"]
  /\ is_connected' = [t \in Tunnels |-> FALSE]
  /\ UNCHANGED <<inbound, served, hdl, dials, avail, rd, data, delivered, peerClosed>>
  /\ UNCHANGED <<instance, created, cfg, should_reconnect, ssh_client, transport,
                 client, active, leaked, wpc, late, relay, hvars, firstHandle,
                 env, kvars, ovars>>

\* lines 109-114: the finally of forward_data; the thread ends.
ForwardFinally(d) ==
  /\ fpc[d] = "finally"
  /\ closed' = [e \in Ends |-> closed[e] \/ e \in FinallyCloses(d)]
  /\ fpc' = [fpc EXCEPT ![d] = "done"]
  /\ UNCHANGED <<inbound, served, hdl, dials, avail, rd, data, delivered, peerClosed>>
  /\ ForwardFrame

\* lines 132-142: both joins return when both threads have ended; the finally
\* closes the channel and the local socket and the handler returns.
HandlerJoin ==
  /\ hdl = "join"
  /\ \A d \in Directions : fpc[d] = "done"
  /\ closed' = [e \in Ends |-> TRUE]
  /\ hdl' = "returned"
  /\ UNCHANGED <<inbound, served, dials, fpc, avail, rd, data, delivered, peerClosed>>
  /\ ForwardFrame

\* One step of a forward_data thread.
Forwarder(d) == ForwardRecv(d) \/ ForwardSend(d) \/ ForwardFinally(d)

\* One step of the handler's own thread.
Handler == HandlerDial \/ HandlerJoin

\* The transport thread between handler calls.
TransportThread == HandlerInvoked

ForwardNext ==
  \/ InboundArrives(MaxConns)
  \/ TransportThread
  \/ Handler
  \/ \E d \in Directions : Forwarder(d) \/ PeerWrite(d)
  \/ \E e \in Ends : PeerClose(e)

\* Inbound connections through _handle_tunnel_connection; no tunnel call is
\* made meanwhile and the relay keeps serving.
ForwardInit == InitWith({"up"}, {DefaultEnv}, {NoKeyInput})

ForwardSpec == ForwardInit /\ [][ForwardNext]_vars

\* The handler's thread and the two copy threads are scheduled; what the
\* peers do and when is not constrained.
ForwardLiveSpec ==
  /\ ForwardInit
  /\ [][ForwardNext]_vars
  /\ WF_vars(TransportThread)
  /\ WF_vars(Handler)
  /\ \A d \in Directions : WF_vars(Forwarder(d))

\* ------------------------------------------------------ main.py lifespan
\* lines 127-159: with PUBLIC_VPS_IP, SSH_USER and PUBLIC_PORT set the hook
\* calls create_ssh_tunnel with the keywords of lines 152-157; otherwise it
\* logs that the tunnel is not configured and the application serves.
LifespanStartup ==
  /\ lpc = "startup"
  /\ hpc = "idle"
  /\ IF env.host /\ env.user /\ env.port
     THEN /\ hpc' = "C262"
          /\ hcall' = [op |-> "create_ssh_tunnel", host |-> TRUE, c |-> env.c,
                       kw |-> LifespanKwargs, t |-> 0]
          /\ lpc' = "L151"
     ELSE /\ lpc' = "serving"
          /\ UNCHANGED <<hpc, hcall>>
  /\ UNCHANGED <<instance, hret, hraised, ssh_tunnel_instance>>
  /\ UNCHANGED TunnelFields
  /\ UNCHANGED <<created, cfg, relay, firstHandle, late, fvars, env, kvars,
                 ovars>>

\* lines 160-192: the call has returned (its value is in ssh_tunnel_instance);
\* the hook logs what it got and yields: the application serves.
LifespanServe ==
  /\ lpc = "L151"
  /\ hpc = "idle"
  /\ lpc' = "serving"
  /\ UNCHANGED <<instance, hpc, hcall, hret, hraised, ssh_tunnel_instance>>
  /\ UNCHANGED TunnelFields
  /\ UNCHANGED <<created, cfg, relay, firstHandle, late, fvars, env, kvars,
                 ovars>>

\* lines 194-206: on shutdown, tunnel = get_tunnel_instance(); if tunnel:
\* stop_ssh_tunnel().
LifespanShutdown ==
  /\ lpc = "serving"
  /\ hpc = "idle"
  /\ lpc' = "down"
  /\ IF instance # 0
     THEN /\ hpc' = "S276"
          /\ hcall' = [op |-> "stop_ssh_tunnel", host |-> FALSE, c |-> NoCall.c,
                       kw |-> {}, t |-> 0]
     ELSE UNCHANGED <<hpc, hcall>>
  /\ UNCHANGED <<instance, hret, hraised, ssh_tunnel_instance>>
  /\ UNCHANGED TunnelFields
  /\ UNCHANGED <<created, cfg, relay, firstHandle, late, fvars, env, kvars,
                 ovars>>

\* The application's life under each environment: startup, serving, shutdown.
LifespanNext ==
  \/ LifespanStartup
  \/ CreateSshTunnel
  \/ CreateExcept
  \/ HostReturn
  \/ LifespanServe
  \/ LifespanShutdown

LifespanSpec == InitWith(RelayModes, Envs, {NoKeyInput}) /\ [][LifespanNext]_vars

\* The names an SSHTunnel object has: the fields __init__ sets (lines 31-43)
\* and the methods of the class.
TunnelAttrs ==
  {"private_server_port", "public_port", "ssh_user", "public_vps_ip",
   "ssh_password", "private_key_path", "passphrase", "ssh_client", "transport",
   "is_connected", "should_reconnect", "tunnel_thread", "_resolve_path",
   "_get_ssh_key", "_handle_tunnel_connection", "connect", "disconnect",
   "start_tunnel", "stop_tunnel"}
\* hasattr(obj, a) and obj.a for tunnel t (the boolean fields).
HasAttr(t, a) == a \in TunnelAttrs
GetAttr(t, a) ==
  CASE a = "is_connected" -> is_connected[t]
    [] a = "should_reconnect" -> should_reconnect[t]
    [] OTHER -> FALSE
\* main.py line 523 (and 740): what /health reports as ssh_tunnel_active:
\* ssh_tunnel_instance.is_active if ssh_tunnel_instance and
\* hasattr(ssh_tunnel_instance, 'is_active') else False
ssh_tunnel_active ==
  IF ssh_tunnel_instance # 0 /\ HasAttr(ssh_tunnel_instance, "is_active")
  THEN GetAttr(ssh_tunnel_instance, "is_active")
  ELSE FALSE

\* ------------------------------------------------------------ _get_ssh_key
\* What key_class.from_private_key_file(key_path, password=passphrase) does
\* for parser p: it returns a key ("key"), raises PasswordRequiredException
\* ("pwdreq") or raises something else ("fail"). A parser reads a PEM file of
\* its own type and an OPENSSH file holding a key of its type; an encrypted
\* file without a passphrase raises PasswordRequiredException in the parser
\* of a PEM file's type and, for an OPENSSH file, in every parser (the cipher
\* is read before the key type).
ParseOutcome(p, f, pass) ==
  IF f.fmt = "garbage" THEN "fail"
  ELSE IF ~f.enc THEN (IF p = f.type THEN "key" ELSE "fail")
  ELSE IF pass = "none"
       THEN (IF f.fmt = "openssh" \/ p = f.type THEN "pwdreq" ELSE "fail")
  ELSE IF pass = "right" /\ p = f.type THEN "key"
  ELSE "fail"

\* A step of _get_ssh_key leaves everything else alone.
KeyFrame ==
  UNCHANGED <<instance, created, tvars, relay, hvars, firstHandle, fvars, env, kin,
              ovars>>

\* connect calls self._get_ssh_key() (line 164).
GetSshKeyCall ==
  /\ kpc = "idle"
  /\ kpc' = "L58"
  /\ UNCHANGED <<ktried, kres>>
  /\ KeyFrame

\* lines 58-59: if not self.private_key_path: return None
GetKeyCheckPath ==
  /\ kpc = "L58"
  /\ kpc' = IF kin.path = "unset" THEN "ret" ELSE "L61"
  /\ UNCHANGED <<ktried, kres>>
  /\ KeyFrame

\* line 61: key_path = self._resolve_path(self.private_key_path), before the
\* try of line 63: what it raises leaves _get_ssh_key.
GetKeyResolvePath ==
  /\ kpc = "L61"
  /\ kpc' = IF kin.path = "unresolvable" THEN "raised" ELSE "L65"
  /\ UNCHANGED <<ktried, kres>>
  /\ KeyFrame

GetKeyTryParser_PasswordRequiredEscapes ==
  /\ kpc = "L65"
  /\ Len(ktried) < Len(ParserOrder)
  /\ LET p == ParserOrder[Len(ktried) + 1]
         o == ParseOutcome(p, kin.file, kin.pass)
     IN /\ ktried' = Append(ktried, p)
        /\ kres' = IF o = "key" THEN p ELSE "None"
        /\ kpc' = IF o = "key" THEN "ret" ELSE IF o = "pwdreq" THEN "raised" ELSE "L65"
  /\ KeyFrame

\* lines 65-72: the next key class of the list is tried: its key is returned,
\* PasswordRequiredException returns None at once, any other exception goes
\* on to the next class.
GetKeyTryParser ==
  /\ kpc = "L65"
  /\ Len(ktried) < Len(ParserOrder)
  /\ LET p == ParserOrder[Len(ktried) + 1]
         o == ParseOutcome(p, kin.file, kin.pass)
     IN /\ ktried' = Append(ktried, p)
        /\ kres' = IF o = "key" THEN p ELSE "None"
        /\ kpc' = IF o \in {"key", "pwdreq"} THEN "ret" ELSE "L65"
  /\ KeyFrame

\* lines 74-75: the list is exhausted: return None.
GetKeyExhausted ==
  /\ kpc = "L65"
  /\ Len(ktried) = Len(ParserOrder)
  /\ kres' = "None"
  /\ kpc' = "ret"
  /\ UNCHANGED ktried
  /\ KeyFrame

KeyNext ==
  \/ GetSshKeyCall
  \/ GetKeyCheckPath
  \/ GetKeyResolvePath
  \/ GetKeyTryParser
  \/ GetKeyExhausted

\* One call of _get_ssh_key on each key path, file and passphrase.
KeySpec == InitWith({"up"}, {DefaultEnv}, KeyInputs) /\ [][KeyNext]_vars

\* One tunnel under every configuration: each combination of credentials, a
\* relay that may accept the password only, each value of SSH_SERVER_PORT.
ConfigInit == InitWith(AllRelayModes, PortEnvs, {NoKeyInput})

ConfigNext ==
  \/ HostCall(MaxTunnels, AllConfigs)
  \/ HostStep
  \/ \E t \in Tunnels : Worker(t)
  \/ \E m \in AllRelayModes : RelaySet(m)

ConfigSpec == ConfigInit /\ [][ConfigNext]_vars

\* The relay forwards inbound connections to tunnel t: the forward was granted
\* on its live transport and the worker is past request_port_forward.
Forwarding(t) == ForwardGranted(t) /\ wpc[t] \in {"L186", "L225", "L226"}

\* A tunnel, started with a key and never stopped, under a relay that changes
\* at will, and the connections the relay forwards to it.
ServeNext ==
  \/ CallCreate(MaxTunnels, TRUE, [key |-> TRUE, pwd |-> FALSE])
  \/ CreateSshTunnel
  \/ HostReturn
  \/ \E t \in Tunnels : Worker(t)
  \/ \E m \in RelayModes : RelaySet(m)
  \/ (\E t \in Tunnels : Forwarding(t)) /\ InboundArrives(MaxServed)
  \/ TransportThread
  \/ Handler
  \/ \E d \in Directions : Forwarder(d) \/ PeerWrite(d)
  \/ \E e \in Ends : PeerClose(e)

ServeSpec == Init /\ [][ServeNext]_vars

\* The relay dies silently: its host loses power or the path to it is cut, so
\* neither a close nor a reset reaches this side. connect configures no
\* keepalive on the transport (lines 176-187 make no set_keepalive call) and
\* an idle tunnel sends nothing, so the transport stays as it was: is_active()
\* keeps answering True.
RelayDiesSilently ==
  /\ relay # "down"
  /\ relay' = "down"
  /\ UNCHANGED <<instance, created, tvars, hvars, firstHandle, fvars, env, kvars,
                 ovars>>

\* A tunnel over a relay that serves until it dies silently, and stays dead.
SilentNext ==
  \/ HostCall(MaxTunnels, Configs)
  \/ HostStep
  \/ \E t \in Tunnels : Worker(t)
  \/ RelayDiesSilently

\* The worker and the host thread are scheduled as in LiveSpec.
SilentSpec ==
  /\ InitWith({"up"}, {DefaultEnv}, {NoKeyInput})
  /\ [][SilentNext]_vars
  /\ \A t \in Tunnels : WF_vars(Worker(t))
  /\ WF_vars(HostStep)

\* ---------------------------------------- log_function_call's wrappers
\* A step of the wrapper leaves the tunnel and everything else alone.
LogFrame ==
  UNCHANGED <<instance, created, tvars, relay, hvars, firstHandle, fvars, env,
              kvars, logfn, svars>>

\* The caller calls the decorated name with arguments a and k. For a def that
\* enters sync_wrapper (line 40); for an async def (line 17) the call of
\* async_wrapper makes a coroutine and runs nothing yet.
WrapperCall(a, k) ==
  /\ logpc = "idle"
  /\ logcall' = [a |-> a, k |-> k]
  /\ logpc' = IF logfn.kind = "async" THEN "coro" ELSE "enter"
  /\ UNCHANGED <<logrecv, result, exc, logout>>
  /\ LogFrame

\* The caller awaits the coroutine: async_wrapper's body starts (line 20).
WrapperAwait ==
  /\ logpc = "coro"
  /\ logpc' = "enter"
  /\ UNCHANGED <<logcall, logrecv, result, exc, logout>>
  /\ LogFrame

\* lines 20-28 and 41-49: the CALL line is logged (with len(args) and
\* len(kwargs) only), the time taken, and func is called with *args and
\* **kwargs (and awaited, in async_wrapper) inside the try: its value goes to
\* result, an Exception it raises to the except clause, and any other
\* BaseException straight to the caller.
WrapperCallFunc ==
  /\ logpc = "enter"
  /\ logrecv' = logcall
  /\ LET o == Apply(logfn, logrecv'.a, logrecv'.k) IN
       IF o.kind = "return"
       THEN /\ result' = o.val
            /\ logpc' = "return"
            /\ UNCHANGED <<exc, logout>>
       ELSE IF IsException(o.val.r)
       THEN /\ exc' = o.val
            /\ logpc' = "except"
            /\ UNCHANGED <<result, logout>>
       ELSE /\ logout' = o
            /\ logpc' = "done"
            /\ UNCHANGED <<result, exc>>
  /\ UNCHANGED logcall
  /\ LogFrame

\* lines 29-31 and 50-52: the RETURN line is logged; return result.
WrapperReturn ==
  /\ logpc = "return"
  /\ logout' = Returns(result)
  /\ logpc' = "done"
  /\ UNCHANGED <<logcall, logrecv, result, exc>>
  /\ LogFrame

WrapperExcept_Swallows ==
  /\ logpc = "except"
  /\ logout' = Returns(None)
  /\ logpc' = "done"
  /\ UNCHANGED <<logcall, logrecv, result, exc>>
  /\ LogFrame

\* lines 32-35 and 53-56: the ERROR line is logged with str(e); raise.
WrapperExcept ==
  /\ logpc = "except"
  /\ logout' = [kind |-> "raise", val |-> exc]
  /\ logpc' = "done"
  /\ UNCHANGED <<logcall, logrecv, result, exc>>
  /\ LogFrame

LogNext ==
  \/ \E a \in ArgTuples, k \in KwargSets : WrapperCall(a, k)
  \/ WrapperAwait
  \/ WrapperCallFunc
  \/ WrapperReturn
  \/ WrapperExcept

\* One call of the wrapper of each function, with each argument list.
LogInit ==
  /\ InitTunnel({"up"}, {DefaultEnv}, {NoKeyInput})
  /\ InitLog(Functions)
  /\ InitStore({"data_store"})

LogSpec == LogInit /\ [][LogNext]_vars

\* The local service goes on writing after the StreamLen bytes it wrote have
\* all been forwarded (a response that streams without end): the bytes
\* forwarded so far are left out of the account, which starts again.
LocalStreams ==
  /\ hdl = "join"
  /\ ~peerClosed["sock"]
  /\ fpc["l2t"] = "recv"
  /\ avail["l2t"] = StreamLen /\ rd["l2t"] = StreamLen
  /\ avail' = [avail EXCEPT !["l2t"] = 1]
  /\ rd' = [rd EXCEPT !["l2t"] = 0]
  /\ delivered' = [delivered EXCEPT !["l2t"] = <<>>]
  /\ UNCHANGED <<inbound, served, hdl, dials, fpc, data, peerClosed, closed>>
  /\ ForwardFrame

\* A tunnel on a relay that serves, the connections forwarded to it, and the
\* host calling stop_ssh_tunnel at any moment; the peers of a connection write
\* and keep their side open.
TeardownNext ==
  \/ CallCreate(MaxTunnels, TRUE, [key |-> TRUE, pwd |-> FALSE])
  \/ CallStopSsh
  \/ HostReturn
  \/ CreateSshTunnel
  \/ StopCheckInstance
  \/ DisconnectStopRequest
  \/ DisconnectClearConnected
  \/ DisconnectCheckClient
  \/ DisconnectClose
  \/ DisconnectExcept
  \/ DisconnectDropClient
  \/ StopJoin
  \/ StopClearInstance
  \/ \E t \in Tunnels : Worker(t)
  \/ (\E t \in Tunnels : Forwarding(t)) /\ InboundArrives(MaxServed)
  \/ TransportThread
  \/ Handler
  \/ \E d \in Directions : Forwarder(d) \/ PeerWrite(d)
  \/ LocalStreams

\* The handler's thread and the copy threads are scheduled; when the host
\* and the worker run and when the peers write is not constrained.
TeardownSpec ==
  /\ InitWith({"up"}, {DefaultEnv}, {NoKeyInput})
  /\ [][TeardownNext]_vars
  /\ WF_vars(Handler)
  /\ \A d \in Directions : WF_vars(Forwarder(d))

\* ------------------------------------------------------------ properties
Started(t) == t \in 1..created
Running(t) == wpc[t] \notin {"nothread", "done"}
\* Active with a transport that is alive.
Healthy(t) == is_connected[t] /\ TransportIsActive(t)

\* C1: with a relay that stays reachable, accepts the credentials and grants
\* the forward, a started tunnel that has a credential eventually has
\* is_connected True, unless stop is requested.
C1_StartReachesActive ==
  [](relay = "up") =>
    \A t \in Tunnels :
      (Started(t) /\ AuthChoice(cfg[t]) # "none")
        ~> (is_connected[t] \/ ~should_reconnect[t])

C1_Witness ==
  \E t \in Tunnels : Healthy(t) /\ should_reconnect[t] /\ wpc[t] = "L225"

\* The transport went inactive under an Active tunnel that was not stopped.
Lost(t) == is_connected[t] /\ ~TransportIsActive(t) /\ should_reconnect[t]

\* C2: when the transport goes inactive under an Active tunnel, the liveness
\* poll sets is_connected False and a new connect attempt follows, unless stop
\* is requested; and if the relay from some time on serves again, the tunnel
\* is Active again with a live transport.
C2_LostIsDetectedAndReconnects ==
  \A t \in Tunnels :
    /\ Lost(t) ~> ~is_connected[t]
    /\ Lost(t) ~> (wpc[t] = "L150" \/ ~should_reconnect[t])
    /\ <>[](relay = "up") => (Lost(t) ~> (Healthy(t) \/ ~should_reconnect[t]))

\* Active again after a loss: the client of the lost session was replaced.
C2_Witness ==
  \E t \in Tunnels : Healthy(t) /\ should_reconnect[t] /\ leaked[t] > 0

\* The stop_tunnel call on t is past disconnect, or has returned.
StopDone(t) ==
  /\ ~should_reconnect[t]
  /\ hcall.t = t => hpc \in {"J250", "S278", "ret"}

\* C3: Start calls alone leave at most one worker running and the registry
\* holding the handle the first Start returned, which later Starts return too.
C3_StartTwiceSameHandle ==
  ((\A t \in Tunnels : should_reconnect[t]) /\ hcall.op \in {"none", "create_ssh_tunnel"})
    => /\ Cardinality({t \in Tunnels : Running(t)}) <= 1
       /\ instance \in {0, firstHandle}
       /\ (hpc = "ret" /\ hcall.host) => hret = firstHandle

\* C4: once stop_tunnel is through and the worker has exited, is_connected is
\* False and the SSH client the tunnel created last is not open.
C4_StoppedIsClosed ==
  \A t \in Tunnels :
    (StopDone(t) /\ wpc[t] = "done") => (~is_connected[t] /\ client[t] # "open")

\* C5 as claimed: no connect attempt begins once should_reconnect is False.
C5_NoAttemptAfterStop == \A t \in Tunnels : late[t] = 0

\* C5 amended: once should_reconnect is False the worker begins at most one
\* more connect attempt (the one whose loop check it had already passed).
C5_AtMostOneLateAttempt == \A t \in Tunnels : late[t] <= 1

C5_Witness == \E t \in Tunnels : late[t] = 1 /\ wpc[t] = "done"

\* C6: after the stop request the worker thread terminates, wherever it was.
C6_WorkerTerminates ==
  \A t \in Tunnels : (Started(t) /\ ~should_reconnect[t]) ~> (wpc[t] = "done")

\* The worker ended although it was inside a connect attempt, and became
\* connected, after the stop request.
C6_Witness ==
  \E t \in Tunnels : wpc[t] = "done" /\ late[t] = 1 /\ is_connected[t]

\* C7: stop_ssh_tunnel raises nothing and leaves _tunnel_instance None when it
\* returns; with nothing registered it changes nothing.
C7_StopClearsRegistry ==
  /\ [](~hraised)
  /\ []((hpc = "ret" /\ hcall.op = "stop_ssh_tunnel") => instance = 0)
  /\ [][(hpc = "S276" /\ instance = 0 /\ hpc' # hpc)
          => UNCHANGED <<instance, created, tvars, relay, firstHandle>>]_vars

\* stop_ssh_tunnel has returned while the worker is still inside connect or
\* sleeping.
C7_Witness ==
  /\ hpc = "ret" /\ hcall.op = "stop_ssh_tunnel" /\ hcall.t # 0
  /\ wpc[hcall.t] \in {"L176r", "L234"}

\* C8: create_ssh_tunnel without a relay host returns None, raises nothing,
\* starts no worker and leaves the registry and every tunnel as they were.
C8_NoHostIsNoOp ==
  [][(hpc \in {"C262", "C265"} /\ ~hcall.host /\ hpc' # hpc)
       => /\ ~hraised'
          /\ hpc' = "ret" => hret' = 0
          /\ UNCHANGED <<instance, created, tvars, relay, firstHandle>>]_vars

\* The call without a host returned None with a tunnel registered.
C8_Witness ==
  hpc = "ret" /\ hcall.op = "create_ssh_tunnel" /\ ~hcall.host /\ hret = 0 /\ instance # 0

\* C9: in each direction, whenever every send so far has returned, the bytes
\* the destination accepted are exactly the bytes read from the source.
C9_ByteExact ==
  \A d \in Directions :
    fpc[d] = "recv" => delivered[d] = SubSeq(Stream, 1, rd[d])

\* C10: a direction whose loop has ended has closed the channel and the local
\* socket; from then on the other direction ends too and the handler returns;
\* in particular once the local service has closed its socket during the
\* forwarding, the channel gets closed and the handler returns with both copy
\* threads ended.
C10_EndClosesBothAndReturns ==
  /\ [](\A d \in Directions : fpc[d] = "done" => \A e \in Ends : closed[e])
  /\ (\E d \in Directions : fpc[d] \in {"finally", "done"})
       ~> (hdl = "returned" /\ \A d \in Directions : fpc[d] = "done")
  /\ (hdl = "join" /\ peerClosed["sock"])
       ~> (closed["chan"] /\ hdl = "returned" /\ \A d \in Directions : fpc[d] = "done")

\* The handler returned after the local service closed its socket, the remote
\* client having neither closed nor anything left to say.
C10_Witness ==
  /\ hdl = "returned" /\ peerClosed["sock"] /\ ~peerClosed["chan"]
  /\ rd["t2l"] = avail["t2l"] /\ delivered["t2l"] # <<>>
  /\ \A d \in Directions : fpc[d] = "done"

\* The connection the transport thread is handling stalls: both copy threads
\* wait in recv, nothing is left to read and neither peer has closed.
Stalled ==
  /\ hdl = "join"
  /\ \A d \in Directions : fpc[d] = "recv" /\ rd[d] = avail[d]
  /\ \A e \in Ends : ~peerClosed[e] /\ ~closed[e]

\* The connection the transport thread took last failed: its local dial was
\* refused and its handler returned.
DialFailed == hdl = "returned" /\ \A d \in Directions : fpc[d] = "nothread"

\* C11: while one inbound connection stalls, or after it failed, the handler
\* of another inbound connection that waits can be invoked.
C11_StallDoesNotBlockOthers ==
  (inbound > 0 /\ (Stalled \/ DialFailed)) => ENABLED HandlerInvoked

\* C12: a handler whose local dial fails closes the remote channel, starts no
\* copy thread and returns, having dialed once.
C12_DialFailureClosesNoRetry ==
  /\ [](dials <= 1)
  /\ [](DialFailed => (closed["chan"] /\ dials = 1))
  /\ [][(hdl = "dial" /\ hdl' # "join" /\ hdl' # hdl)
          => (hdl' = "returned" /\ closed'["chan"]
              /\ \A d \in Directions : fpc'[d] = "nothread")]_vars

\* The second connection's dial failed after the first was forwarded.
C12_Witness ==
  DialFailed /\ served = 2 /\ dials = 1 /\ closed["chan"] /\ closed["sock"]

\* C13: a step of the forwarder (a failed dial, a read or write error in a
\* copy thread and the closes that follow included) leaves is_connected,
\* should_reconnect, the SSH client and transport, the worker and the registry
\* as they were.
C13_ForwarderLeavesTunnelAlone ==
  [][(fvars' # fvars)
       => UNCHANGED <<instance, created, tvars, relay, hvars, firstHandle>>]_vars

\* Under a registered, Active tunnel a connection's local dial failed, or a
\* send in one of its copy threads raised and the thread ended.
C13_Witness ==
  /\ \E t \in Tunnels : instance = t /\ Healthy(t) /\ wpc[t] = "L226"
  /\ \/ DialFailed
     \/ \E d \in Directions : fpc[d] = "done" /\ Len(delivered[d]) < rd[d]

\* The credentials a tunnel is configured with.
Credentials(c) ==
  {x \in {"pkey", "password"} : (x = "pkey" /\ c.key) \/ (x = "password" /\ c.pwd)}

\* C14: a connect attempt on a reachable relay, not disturbed by disconnect,
\* fails at ssh_client.connect only if the relay accepts none of the
\* credentials the tunnel is configured with.
C14_FailsOnlyIfNoCredentialAccepted ==
  [][\A t \in Tunnels :
       (wpc[t] = "L176r" /\ wpc'[t] = "L234" /\ relay # "down" /\ client[t] # "closed")
         => \A x \in Credentials(cfg[t]) : ~RelayAccepts(x)]_vars

\* C15: a tunnel with neither a key that loads nor a password is never
\* connected: its connect calls return False from line 173, its SSH client is
\* never connected and no transport is ever taken.
C15_NoCredentialFailsFast ==
  /\ [](\A t \in Tunnels :
          Credentials(cfg[t]) = {}
            => /\ ~is_connected[t]
               /\ client[t] # "open" /\ transport[t] = "None"
               /\ wpc[t] \in {"nothread", "L220", "L222", "L150", "L234", "done"})
  /\ [][\A t \in Tunnels :
          (wpc[t] = "L150" /\ Credentials(cfg[t]) = {} /\ wpc'[t] # wpc[t])
            => wpc'[t] = "L234"]_vars

\* A tunnel without credentials came back from connect while the relay serves.
C15_Witness ==
  \E t \in Tunnels :
    /\ Started(t) /\ Credentials(cfg[t]) = {} /\ relay = "up"
    /\ wpc[t] = "L234" /\ client[t] = "new" /\ should_reconnect[t]

\* The SSH connection port the application is configured with (main.py line
\* 129: os.getenv("SSH_SERVER_PORT", "22")).
ConfiguredPort ==
  IF env.ssh_server_port = 0 THEN DefaultSshPort ELSE env.ssh_server_port

\* C20: whenever connect dials the relay it dials the configured SSH
\* connection port.
C20_DialsConfiguredPort ==
  \A t \in Tunnels : wpc[t] = "L176r" => ConnectPort = ConfiguredPort

\* Parser p would return a key for the file and passphrase of the call.
WouldParse(p) == ParseOutcome(p, kin.file, kin.pass) = "key"
\* The parsers were called in the order of the list, none skipped.
TriedInOrder == ktried = SubSeq(ParserOrder, 1, Len(ktried))
\* The key returned is that of the parser called last, the first that succeeds.
ReturnsFirstSuccess ==
  kres # "None"
    => /\ ktried # <<>> /\ kres = ktried[Len(ktried)] /\ WouldParse(kres)
       /\ \A i \in 1..(Len(ktried) - 1) : ~WouldParse(ktried[i])

\* C16 as claimed: the parsers are tried in order, the first success is
\* returned, no key is returned only after every parser of the list has been
\* tried and has failed, and the call never raises.
C16_NoKeyOnlyAfterAllFailed ==
  /\ kpc # "raised"
  /\ TriedInOrder
  /\ (kpc = "ret" /\ kin.path # "unset")
       => /\ ReturnsFirstSuccess
          /\ kres = "None" => ktried = ParserOrder

\* C16 amended: the parsers are tried in order and the first success is
\* returned; no key is returned when every parser has been tried and failed,
\* or as soon as one raised PasswordRequiredException, and then no parser of
\* the list would have read the file; nothing a parser raises leaves the
\* call, which raises only when resolving the path does.
C16_NoKeyWhenAllFailOrPassphraseNeeded ==
  /\ TriedInOrder
  /\ kpc = "raised" => (kin.path = "unresolvable" /\ ktried = <<>>)
  /\ (kpc = "ret" /\ kin.path # "unset")
       => /\ ReturnsFirstSuccess
          /\ kres = "None"
               => /\ \A p \in Parsers : ~WouldParse(p)
                  /\ \/ ktried = ParserOrder
                     \/ ParseOutcome(ktried[Len(ktried)], kin.file, kin.pass) = "pwdreq"

\* No key was returned after the third parser asked for a passphrase, the
\* fourth not tried.
C16_Witness ==
  /\ kpc = "ret" /\ kres = "None" /\ Len(ktried) = 3
  /\ ParseOutcome(ktried[3], kin.file, kin.pass) = "pwdreq"

\* C17: what the health check reports as ssh_tunnel_active is TRUE exactly
\* when a tunnel is registered and its is_connected is True.
C17_HealthReportsTunnelState ==
  ssh_tunnel_active = (\E t \in Tunnels : instance = t /\ is_connected[t])

\* C18: while stop has not been requested the worker thread of a started
\* tunnel is alive whatever failed; nothing reaches the host thread; and the
\* worker begins connect attempts again and again for as long as the tunnel is
\* neither stopped nor connected.
C18_WorkerSurvivesFailures ==
  /\ [](\A t \in Tunnels : (Started(t) /\ should_reconnect[t]) => Running(t))
  /\ [](~hraised /\ (hpc = "ret" /\ hcall.op = "create_ssh_tunnel" /\ hcall.host
                       => hret # 0))
  /\ \A t \in Tunnels :
       []<>(~Started(t) \/ ~should_reconnect[t] \/ is_connected[t] \/ wpc[t] = "L150")

\* The worker is about to connect again after an attempt that got as far as a
\* transport and a later one that failed before line 177, the relay being down.
C18_Witness ==
  \E t \in Tunnels :
    /\ should_reconnect[t] /\ wpc[t] = "L150" /\ client[t] = "new"
    /\ transport[t] = "stale" /\ relay = "down"

\* C19: once the lifespan startup hook is through with PUBLIC_VPS_IP, SSH_USER
\* and PUBLIC_PORT set, a tunnel is registered, the hook holds it and its
\* worker runs.
C19_LifespanRegistersTunnel ==
  (lpc = "serving" /\ env.host /\ env.user /\ env.port)
    => \E t \in Tunnels : instance = t /\ ssh_tunnel_instance = t /\ Running(t)

\* The relay died under an Active tunnel without this side being told.
SilentlyDead(t) == is_connected[t] /\ relay = "down" /\ TransportIsActive(t)

\* C21: when the relay dies silently under an Active tunnel, is_connected
\* eventually becomes False and a connect attempt follows, unless stop is
\* requested.
C21_SilentDeathDetected ==
  \A t \in Tunnels :
    /\ SilentlyDead(t) ~> (~is_connected[t] \/ ~should_reconnect[t])
    /\ SilentlyDead(t) ~> (wpc[t] = "L150" \/ ~should_reconnect[t])

\* C22: a call of the wrapper that log_function_call made of a def or of an
\* async def ends, whatever the arguments, as the call of the original
\* function with these arguments ends: with the same value returned or the
\* same exception raised; and the original was called with these arguments.
C22_WrapperTransparent ==
  /\ logpc = "done"
       => /\ logout = Apply(logfn, logcall.a, logcall.k)
          /\ logrecv = logcall
  /\ logpc # "done" => logout = NoOutcome

\* The wrapper of an async def, given positional and keyword arguments that
\* do not fit, has raised the TypeError of the original.
C22_Witness ==
  /\ logpc = "done" /\ logfn.kind = "async" /\ logfn.body = "process"
  /\ Len(logcall.a) = 2 /\ logcall.k # {}
  /\ logout = Raises("TypeError")

\* C23: is_connected becomes True only at line 186, which the worker reaches
\* only from a request_port_forward the relay granted, made only after
\* ssh_client.connect went through on a relay that accepted the credential;
\* when the relay refuses the forward the worker goes through lines 189-192:
\* connect returns False to the backoff sleep with is_connected False and,
\* on a tunnel that is not being stopped, the client closed; and a new connect
\* attempt follows unless stop is requested.
C23_ActiveOnlyAfterForwardGranted ==
  /\ [][\A t \in Tunnels :
          /\ (is_connected'[t] /\ ~is_connected[t]) => wpc[t] = "L186"
          /\ (wpc'[t] = "L186" /\ wpc[t] # "L186")
               => (wpc[t] = "L183" /\ ForwardGranted(t))
          /\ (wpc'[t] = "L183" /\ wpc[t] # "L183") => wpc[t] = "L177"
          /\ (wpc'[t] = "L177" /\ wpc[t] # "L177")
               => (wpc[t] = "L176r" /\ relay # "down"
                   /\ RelayAccepts(AuthChoice(cfg[t])))]_vars
  /\ [][\A t \in Tunnels :
          /\ (wpc[t] = "L183" /\ ~ForwardGranted(t) /\ wpc'[t] # wpc[t])
               => wpc'[t] = "L191"
          /\ (wpc[t] = "L191" /\ wpc'[t] # wpc[t])
               => /\ wpc'[t] = "L234"
                  /\ ~is_connected'[t]
                  /\ should_reconnect[t] => client'[t] = "closed"]_vars
  /\ \A t \in Tunnels :
       (wpc[t] = "L191") ~> (wpc[t] = "L150" \/ ~should_reconnect[t])

\* connect has returned False after the relay refused the forward: the client
\* that had connected is closed and the worker sleeps before it retries.
C23_Witness ==
  \E t \in Tunnels :
    /\ wpc[t] = "L234" /\ should_reconnect[t] /\ ~is_connected[t]
    /\ client[t] = "closed" /\ transport[t] = "cur" /\ relay = "noforward"

\* The worker is inside connect (lines 146-201).
InConnect(t) == wpc[t] \in {"L150", "L176", "L176r", "L177", "L183", "L186", "L191"}

\* C24: a connect attempt ends either at the backoff sleep of line 234 or, when
\* it succeeded, in the monitoring loop with is_connected True; the sleep is
\* left only for the loop condition; and a connect attempt begins only from
\* the check of line 222: so between two attempts the worker slept the
\* backoff or the tunnel was Active.
C24_BackoffBetweenAttempts ==
  [][\A t \in Tunnels :
       /\ (InConnect(t) /\ ~InConnect(t)')
            => \/ wpc'[t] = "L234" /\ ~is_connected'[t]
               \/ wpc'[t] = "L225" /\ is_connected'[t]
       /\ (wpc[t] = "L234" /\ wpc'[t] # wpc[t]) => wpc'[t] = "L220"
       /\ (wpc'[t] = "L150" /\ wpc[t] # "L150") => wpc[t] = "L222"]_vars

\* After an attempt that failed at ssh_client.connect the worker, through its
\* backoff, is at the start of the next attempt.
C24_Witness ==
  \E t \in Tunnels :
    /\ wpc[t] = "L150" /\ should_reconnect[t] /\ ~is_connected[t]
    /\ cfg[t].key /\ client[t] = "new" /\ transport[t] = "None"

\* C25: when connect is about to create an SSHClient (line 150) the client it
\* created before is not a connected one left un-closed, and the tunnel has
\* dropped no client un-closed: at most one un-closed client exists.
C25_AtMostOneUnclosedClient ==
  \A t \in Tunnels :
    /\ wpc[t] = "L150" => client[t] # "open"
    /\ leaked[t] = 0

\* The local dial of the connection the transport thread took last succeeded.
Dialed == \A d \in Directions : fpc[d] # "nothread"

\* C26: after a successful dial an end of the connection is closed here only
\* once a peer has closed its side (end-of-stream, or the error of a read or
\* write on it): while both peers keep their side open, however long they
\* stay silent, both ends stay open.
C26_IdleStaysOpen ==
  (Dialed /\ \E e \in Ends : closed[e]) => \E e \in Ends : peerClosed[e]

\* C27: a forwarded connection in flight when stop_tunnel has closed the SSH
\* client terminates: both copy threads end, the channel and the local socket
\* are closed and the handler returns, whatever the peers go on doing.
C27_StopEndsInFlightConnections ==
  \A t \in Tunnels :
    (InFlight /\ Started(t) /\ ~should_reconnect[t] /\ client[t] = "closed")
      ~> /\ hdl = "returned"
         /\ \A e \in Ends : closed[e]
         /\ \A d \in Directions : fpc[d] \in {"nothread", "done"}

\* The connection ended after stop closed the client under it, the local
\* service still streaming and neither peer having closed.
C27_Witness ==
  /\ \E t \in Tunnels : Started(t) /\ ~should_reconnect[t] /\ client[t] = "closed"
  /\ hdl = "returned" /\ \A d \in Directions : fpc[d] = "done"
  /\ peerClosed["chan"] /\ ~peerClosed["sock"] /\ rd["l2t"] < avail["l2t"]

\* The state disconnect leaves a tunnel in.
Closed(t) == ~should_reconnect[t] /\ ~is_connected[t] /\ ssh_client[t] = "None"

\* The host is inside stop_tunnel (disconnect, then the join) on tunnel t.
InStopTunnel(t) ==
  hcall.t = t /\ hpc \in {"D205", "D206", "D208", "D210", "D211", "D213", "J250"}

\* C28: no call raises into the host; each step of disconnect sets its field
\* (should_reconnect False, is_connected False, ssh_client None); and
\* every step of disconnect and stop_tunnel on a tunnel already in that state
\* leaves it in that state, makes no close() call and changes no other field.
C28_CloseIdempotent ==
  /\ [](~hraised)
  /\ [][\A t \in Tunnels :
          (InStopTunnel(t) /\ hpc' # hpc)
            => /\ hpc = "D205" => ~should_reconnect'[t]
               /\ hpc = "D206" => ~is_connected'[t]
               /\ hpc = "D208" => (hpc' = "J250") = (ssh_client[t] = "None")
               /\ hpc = "D213" => ssh_client'[t] = "None"
               /\ Closed(t)
                    => /\ Closed(t)'
                       /\ hpc' \notin {"D210", "D211", "D213"}
                       /\ UNCHANGED <<instance, created, tvars, relay>>]_vars

\* A second stop_tunnel call has set both flags again and finds ssh_client
\* None: the client it had was closed and dropped by the first call, and the
\* worker has exited.
C28_Witness ==
  \E t \in Tunnels :
    /\ hpc = "D208" /\ hcall.op = "stop_tunnel" /\ hcall.t = t
    /\ Closed(t) /\ client[t] = "closed" /\ wpc[t] = "done" /\ transport[t] = "cur"

\* ------------------------------------------- start_tunnel on a stopped object
\* lines 243-244: the host calls start_tunnel() again on a handle it holds,
\* once the thread of the earlier start has ended: a new Thread running
\* tunnel_worker is created and started at the loop condition of line 220.
\* No field of the object is assigned: should_reconnect is set True in
\* __init__ only.
CallStartTunnel(t) ==
  /\ hpc = "idle"
  /\ t \in 1..created
  /\ wpc[t] = "done"
  /\ wpc' = [wpc EXCEPT ![t] = "L220"]
  /\ hpc' = "ret"
  /\ hcall' = [op |-> "start_tunnel", host |-> FALSE, c |-> NoCall.c,
               kw |-> {}, t |-> t]
  /\ UNCHANGED <<instance, hret, hraised, should_reconnect, is_connected,
                 ssh_client, transport, client, active, leaked>>
  /\ HostFrame

RestartNext ==
  \/ HostCall(MaxTunnels, Configs)
  \/ \E t \in Tunnels : CallStartTunnel(t)
  \/ HostStep
  \/ \E t \in Tunnels : Worker(t)
  \/ \E m \in RelayModes : RelaySet(m)

RestartSpec == Init /\ [][RestartNext]_vars

\* C29: on a constructed object should_reconnect, once False, stays False; a
\* worker standing at the loop condition with should_reconnect False (the one
\* a start_tunnel after stop_tunnel starts) exits, and no connect attempt is
\* entered but from line 222; and an object stop_tunnel has been through that is
\* not Active (is_connected over a live transport) never becomes Active.
C29_StoppedNeverActiveAgain ==
  [][\A t \in Tunnels :
       /\ (Started(t) /\ ~should_reconnect[t]) => ~should_reconnect'[t]
       /\ (wpc[t] = "done" /\ wpc'[t] # "done")
            => (wpc'[t] = "L220" /\ ~should_reconnect'[t])
       /\ (wpc[t] = "L220" /\ ~should_reconnect[t] /\ wpc'[t] # "L220")
            => wpc'[t] = "done"
       /\ (wpc'[t] = "L150" /\ wpc[t] # "L150") => wpc[t] = "L222"
       /\ (Started(t) /\ StopDone(t) /\ ~Healthy(t)) => ~Healthy(t)']_vars

\* The part of C29 about start_tunnel alone: the restarted worker leaves every
\* field as it is and ends at line 220.
RestartedWorkerExits ==
  [][\A t \in Tunnels :
       /\ (Started(t) /\ ~should_reconnect[t]) => ~should_reconnect'[t]
       /\ (wpc[t] = "done" /\ wpc'[t] # "done")
            => (wpc'[t] = "L220" /\ ~should_reconnect'[t])
       /\ (wpc[t] = "L220" /\ ~should_reconnect[t] /\ wpc'[t] # "L220")
            => (wpc'[t] = "done" /\ UNCHANGED <<is_connected, ssh_client,
                                                 client, transport, active>>)
       /\ (wpc'[t] = "L150" /\ wpc[t] # "L150") => wpc[t] = "L222"]_vars

\* ------------------------------------------------- the device registry
StoreFrame ==
  UNCHANGED <<instance, created, tvars, relay, hvars, firstHandle, fvars, env,
              kvars, lvars, impl>>

\* time.time() moves on between calls.
ClockTick ==
  /\ clock < MaxClock
  /\ clock' = clock + 1
  /\ UNCHANGED <<devices, regcall, regout, registered>>
  /\ StoreFrame

RegisterDevice_Replaces(d) ==
  LET id == DeviceIdOf(impl, d) IN
  /\ regcall' = d
  /\ IF id \in {"<absent>", ""}
     THEN /\ regout' = [kind |-> "ValueError", id |-> "<absent>"]
          /\ UNCHANGED <<devices, registered>>
     ELSE /\ devices' = [devices EXCEPT ![id] = NewDevice(impl, d, clock)]
          /\ regout' = [kind |-> "returned", id |-> id]
          /\ registered' = registered \cup {id}
  /\ UNCHANGED clock
  /\ StoreFrame

\* data_store.py lines 125-139 and main.py lines 277-302, called with a dict
\* of its own: without an id ValueError is raised before anything is
\* assigned; a known id has its dict updated and lastSeen refreshed; a new id
\* has the caller's dict stored. The call returns self.devices[id]. (The
\* except clause of main.py lines 299-302 re-raises and has nothing to catch
\* for these arguments.)
RegisterDevice(d) ==
  LET id == DeviceIdOf(impl, d) IN
  /\ regcall' = d
  /\ IF id \in {"<absent>", ""}
     THEN /\ regout' = [kind |-> "ValueError", id |-> "<absent>"]
          /\ UNCHANGED <<devices, registered>>
     ELSE /\ devices' =
               [devices EXCEPT ![id] =
                  IF devices[id] # NoEntry
                  THEN [Update(devices[id], d) EXCEPT !["lastSeen"] = clock]
                  ELSE NewDevice(impl, d, clock)]
          /\ regout' = [kind |-> "returned", id |-> id]
          /\ registered' = registered \cup {id}
  /\ UNCHANGED clock
  /\ StoreFrame

StoreNext ==
  \/ \E d \in DeviceData : RegisterDevice(d)
  \/ ClockTick

\* Either DataStore class may be the one in use.
StoreInit ==
  /\ InitTunnel({"up"}, {DefaultEnv}, {NoKeyInput})
  /\ InitLog({[kind |-> "sync", body |-> "status"]})
  /\ InitStore({"data_store", "main"})

StoreSpec == StoreInit /\ [][StoreNext]_vars

\* The device map holds a dict for device id i.
Known(i) == devices[i] # NoEntry

\* C30: the device map holds an entry for exactly the device ids
\* register_device has returned for, and the entry of an id carries that id;
\* a call for a known id assigns the keys of the update and lastSeen in that
\* entry and leaves its other keys; every call leaves the entries of the other
\* ids alone; and a call without an id raises ValueError and leaves the map
\* as it was.
C30_OneEntryPerDevice ==
  /\ [](/\ {i \in DeviceIds : Known(i)} = registered
        /\ \A i \in DeviceIds :
             Known(i) => i \in {devices[i]["id"], devices[i]["deviceId"]})
  /\ [][(regcall' # regcall \/ regout' # regout \/ devices' # devices)
          => LET id == DeviceIdOf(impl, regcall') IN
             IF id \in {"<absent>", ""}
             THEN regout'.kind = "ValueError" /\ devices' = devices
             ELSE /\ regout' = [kind |-> "returned", id |-> id]
                  /\ devices'[id] # NoEntry
                  /\ \A i \in DeviceIds \ {id} : devices'[i] = devices[i]
                  /\ \A f \in Fields \ {"lastSeen"} :
                       Has(regcall', f) => devices'[id][f] = regcall'[f]
                  /\ devices'[id]["lastSeen"] = clock
                  /\ Known(id)
                       => \A f \in Fields \ {"lastSeen"} :
                            ~Has(regcall', f)
                              => devices'[id][f] = devices[id][f]]_vars

\* Both devices are registered; cam1 was registered with a name at time 1 and
\* re-registered at time 2 with a deviceId and no name: it keeps the name, has
\* the deviceId and a new lastSeen, and cam2 is as it was.
C30_Witness ==
  /\ registered = DeviceIds
  /\ regout = [kind |-> "returned", id |-> "cam1"]
  /\ ~Has(regcall, "name") /\ regcall["deviceId"] = "cam2"
  /\ devices["cam1"]["name"] = "n1" /\ devices["cam1"]["deviceId"] = "cam2"
  /\ devices["cam1"]["lastSeen"] = 2 /\ devices["cam2"]["lastSeen"] = 1

====
